---- MODULE Spec2Model ----
\* Conway's Game of Life on a DOM grid (vasylenkoval/gameoflife).
\* Two versions of the script are modelled side by side:
\*   variant = "full"  : src/game.js             (render scans the whole grid)
\*   variant = "dirty" : src/unnamed/part_000    (render visits alive cells and
\*                                                their neighbours, resize is debounced)
EXTENDS Integers, Sequences, FiniteSets, TLC

----------------------------------------------------------------------------
\* Bounds of the model.

\* Largest row / column count the viewport sizes of Spec ask for.
MaxRows == 1
MaxCols == 1
\* Largest number of intervals active at once: play is cut off there.
MaxIntervals == 2
\* The generation counter gen saturates here.
MaxGen == 5
\* Largest row / column count of the grids SpecStep starts from.
StepRows == 3
StepCols == 3
\* SpecBlinker starts from grids of 5 .. 5 + BlinkerSlack rows and columns.
BlinkerSlack == 4
\* Largest row / column count of the grids and viewport sizes of SpecResize.
ResizeRows == 2
ResizeCols == 2
\* SpecGlider starts from grids of 6 .. 6 + GliderSlack rows and columns.
GliderSlack == 2
PointerRows == 2
PointerCols == 2

----------------------------------------------------------------------------
\* Program constants.

CELL_DIMS == 32
\* CELLS_MULTIPLIER = 1.5, kept as the fraction MULT_NUM / MULT_DEN.
MULT_NUM == 3
MULT_DEN == 2

\* this.state.intervalId when the game is paused.
Undefined == 0
\* document.getElementById found nothing.
Null == <<>>

Variants == {"full", "dirty"}
DRAG_TYPE == [delete |-> "delete", add |-> "add"]
NoDrag == "undefined"

VARIABLES
    variant,      \* which version of the script runs
    grid,         \* children of #grid: rows, each a sequence of cells [id, alive]
    dragType,     \* state.dragType
    intervalId,   \* state.intervalId
    intervals,    \* interval handles the browser still fires
    innerHeight,  \* window.innerHeight
    innerWidth,   \* window.innerWidth
    timer,        \* the debounce timer is pending (dirty variant)
    last,         \* history: the handler that ran last
    target,       \* history: the node the last pointer event hit
    pre,          \* history: the grid before the last render / initGrid / gesture start
    threw,        \* history: the last handler ended with an uncaught TypeError
    gen,          \* history: renders since the last other handler, saturating
    pre2          \* history: the grid before two mousedowns in a row on one cell

vars == <<variant, grid, dragType, intervalId, intervals,
          innerHeight, innerWidth, timer, last, target, pre, threw, gen, pre2>>

----------------------------------------------------------------------------
\* The DOM grid.

Min(S) == CHOOSE x \in S : \A y \in S : x <= y

Range(s) == {s[k] : k \in DOMAIN s}

RECURSIVE Flatten(_)
Flatten(ss) == IF ss = <<>> THEN <<>> ELSE Head(ss) \o Flatten(Tail(ss))

\* A node is named by its place <<i, j>> (1-based) under #grid.
\* All cell nodes in document order.
DocOrder(g) == Flatten([i \in 1..Len(g) |-> [j \in 1..Len(g[i]) |-> <<i, j>>]])

\* document.createElement('div') with class col and id `${rowIdx}-${colIdx}`:
\* no data-alive attribute.
NewColumn(rowIdx, colIdx) == [id |-> <<rowIdx, colIdx>>, alive |-> FALSE]

\* Math.floor((height / CELL_DIMS) * 1.5)
ReqRows(height) == (height * MULT_NUM) \div (CELL_DIMS * MULT_DEN)

\* ReqCols with a slip: rounded down as the rows are.
ReqColsFloor(width) == (width * MULT_NUM) \div (CELL_DIMS * MULT_DEN)

\* Math.ceil((width / CELL_DIMS) * CELLS_MULTIPLIER)
ReqCols(width) ==
    (width * MULT_NUM + CELL_DIMS * MULT_DEN - 1) \div (CELL_DIMS * MULT_DEN)

\* Rows part of initGrid: drop trailing rows or append empty rows.
ReconcileRows(g, reqRows) ==
    IF Len(g) > reqRows
    THEN SubSeq(g, 1, reqRows)
    ELSE g \o [k \in 1..(reqRows - Len(g)) |-> <<>>]

\* ReconcileCols with a slip: the cells appended are numbered from 0.
ReconcileColsFromZero(row, rowIdx, reqCols) ==
    IF Len(row) > reqCols
    THEN SubSeq(row, 1, reqCols)
    ELSE row \o [k \in 1..(reqCols - Len(row)) |-> NewColumn(rowIdx, k - 1)]

\* ReconcileCols with a slip: the row is rebuilt, so kept cells lose their state.
ReconcileColsRebuilt(row, rowIdx, reqCols) ==
    [k \in 1..reqCols |-> NewColumn(rowIdx, k - 1)]

\* Columns part of initGrid for one row: drop trailing cells or append dead ones.
ReconcileCols(row, rowIdx, reqCols) ==
    IF Len(row) > reqCols
    THEN SubSeq(row, 1, reqCols)
    ELSE row \o [k \in 1..(reqCols - Len(row)) |-> NewColumn(rowIdx, Len(row) + k - 1)]

initGrid(g, height, width) ==
    LET rows == ReconcileRows(g, ReqRows(height))
    IN  [i \in 1..Len(rows) |-> ReconcileCols(rows[i], i - 1, ReqCols(width))]

----------------------------------------------------------------------------
\* render: what both versions share.

\* getNode: document.getElementById(`${rowIdx}-${colIdx}`), the first node in
\* document order that carries the id, or null.
getNode(g, rowIdx, colIdx) ==
    LET HitsIn(i) == {j \in 1..Len(g[i]) : g[i][j].id = <<rowIdx, colIdx>>}
        rowsHit == {i \in 1..Len(g) : HitsIn(i) # {}}
    IN  IF rowsHit = {} THEN Null ELSE <<Min(rowsHit), Min(HitsIn(Min(rowsHit)))>>

\* getIsNodeAlive: !!(node && node.dataset.alive)
getIsNodeAlive(g, node) == node # Null /\ g[node[1]][node[2]].alive

\* The neighbors object, in key order: topLeft, top, topRight, right,
\* bottomRight, bottom, bottomLeft, left.
neighbors(g, rowIdx, colIdx) ==
    << getNode(g, rowIdx - 1, colIdx - 1),
       getNode(g, rowIdx - 1, colIdx),
       getNode(g, rowIdx - 1, colIdx + 1),
       getNode(g, rowIdx, colIdx + 1),
       getNode(g, rowIdx + 1, colIdx + 1),
       getNode(g, rowIdx + 1, colIdx),
       getNode(g, rowIdx + 1, colIdx - 1),
       getNode(g, rowIdx, colIdx - 1) >>

\* nodes.filter(getIsNodeAlive).length
aliveCount(g, nodes) == Cardinality({k \in DOMAIN nodes : getIsNodeAlive(g, nodes[k])})

\* Verdict with a slip: an alive cell survives with 3 alive neighbours only.
VerdictSurviveOn3(isAlive, aliveNeighbors) ==
    IF isAlive
    THEN IF aliveNeighbors = 3 THEN "none" ELSE "kill"
    ELSE IF aliveNeighbors = 3 THEN "resurrect" ELSE "none"

\* The branch the rule takes for one node: push to nodesToKill, push to
\* nodesToResurrect, or neither.
Verdict(isAlive, aliveNeighbors) ==
    IF isAlive
    THEN IF aliveNeighbors = 2 \/ aliveNeighbors = 3 THEN "none" ELSE "kill"
    ELSE IF aliveNeighbors = 3 THEN "resurrect" ELSE "none"

\* for (nodeToKill of nodesToKill) nodeToKill.removeAttribute('data-alive')
killAll(g, nodes) ==
    [i \in 1..Len(g) |-> [j \in 1..Len(g[i]) |->
        IF <<i, j>> \in Range(nodes) THEN [g[i][j] EXCEPT !.alive = FALSE] ELSE g[i][j]]]

\* for (nodeToResurrect of nodesToResurrect) nodeToResurrect.dataset.alive = 'true'
\* stops with a TypeError at the first null in the list.
resurrectAll(g, nodes) ==
    LET nulls == {k \in 1..Len(nodes) : nodes[k] = Null}
        upto == IF nulls = {} THEN Len(nodes) ELSE Min(nulls) - 1
        done == {nodes[k] : k \in 1..upto}
    IN  [grid |-> [i \in 1..Len(g) |-> [j \in 1..Len(g[i]) |->
                    IF <<i, j>> \in done THEN [g[i][j] EXCEPT !.alive = TRUE] ELSE g[i][j]]],
         threw |-> nulls # {}]

----------------------------------------------------------------------------
\* render of src/game.js: the full scan. The bare name grid in render is the
\* element of id grid, the same node as this.state.grid.

\* The <<rowIdx, colIdx>> pairs the two nested loops visit, in order:
\* colIdx runs over grid.childNodes.length (outer loop), rowIdx over
\* grid.childNodes[0].childNodes.length (inner loop).
ScanCoords(g) ==
    LET colsLength == Len(g)
        rowsLength == Len(g[1])
    IN  [k \in 1..(colsLength * rowsLength) |->
            <<(k - 1) % rowsLength, (k - 1) \div rowsLength>>]

\* One pass of the loop body: the node looked up and the branch taken.
ScanStep(g, coord) ==
    LET node == getNode(g, coord[1], coord[2])
    IN  [node |-> node,
         verdict |-> Verdict(getIsNodeAlive(g, node),
                             aliveCount(g, neighbors(g, coord[1], coord[2])))]

IsKill(e) == e.verdict = "kill"
IsResurrect(e) == e.verdict = "resurrect"
NodesOf(es) == [k \in 1..Len(es) |-> es[k].node]

renderFull(g) ==
    IF Len(g) = 0
    THEN \* grid.childNodes[0] is undefined: reading .childNodes throws
         [grid |-> g, threw |-> TRUE]
    ELSE LET coords == ScanCoords(g)
             steps == [k \in 1..Len(coords) |-> ScanStep(g, coords[k])]
             nodesToKill == NodesOf(SelectSeq(steps, IsKill))
             nodesToResurrect == NodesOf(SelectSeq(steps, IsResurrect))
         IN  resurrectAll(killAll(g, nodesToKill), nodesToResurrect)

----------------------------------------------------------------------------
\* render of src/unnamed/part_000: alive cells and their neighbours.

NotNull(node) == node # Null
IsAliveCell(g, node) == g[node[1]][node[2]].alive

\* document.querySelectorAll('[data-alive]'), in document order.
AliveNodes(g) ==
    LET doc == DocOrder(g)
        RECURSIVE pick(_)
        pick(k) == IF k > Len(doc) THEN <<>>
                   ELSE IF IsAliveCell(g, doc[k]) THEN <<doc[k]>> \o pick(k + 1)
                   ELSE pick(k + 1)
    IN  pick(1)

NoneSeen == [seen |-> {}, nodesToKill |-> <<>>, nodesToResurrect |-> <<>>]

RECURSIVE check(_, _, _, _)
RECURSIVE forEachCheck(_, _, _)

\* neighborsArr.forEach((cell) => check(cell))
forEachCheck(g, st, cells) ==
    IF cells = <<>> THEN st
    ELSE forEachCheck(g, check(g, st, Head(cells), FALSE), Tail(cells))

\* check(node, recurse); st holds seen, nodesToKill and nodesToResurrect.
check(g, st, node, recurse) ==
    LET id == g[node[1]][node[2]].id
    IN  IF id \in st.seen THEN st
        ELSE
        LET rowIdx == id[1]
            colIdx == id[2]
            neighborsArr == SelectSeq(neighbors(g, rowIdx, colIdx), NotNull)
            st1 == IF recurse THEN forEachCheck(g, st, neighborsArr) ELSE st
            isAlive == getIsNodeAlive(g, node)
            aliveNeighbors == aliveCount(g, neighborsArr)
            v == Verdict(isAlive, aliveNeighbors)
        IN  [seen |-> st1.seen \cup {id},
             nodesToKill |->
                IF v = "kill" THEN Append(st1.nodesToKill, node) ELSE st1.nodesToKill,
             nodesToResurrect |->
                IF v = "resurrect" THEN Append(st1.nodesToResurrect, node)
                ELSE st1.nodesToResurrect]

\* querySelectorAll('[data-alive]').forEach((node) => check(node, true))
RECURSIVE forEachSeed(_, _, _)
forEachSeed(g, st, seeds) ==
    IF seeds = <<>> THEN st
    ELSE forEachSeed(g, check(g, st, Head(seeds), TRUE), Tail(seeds))

renderDirty(g) ==
    LET st == forEachSeed(g, NoneSeen, AliveNodes(g))
    IN  resurrectAll(killAll(g, st.nodesToKill), st.nodesToResurrect)

render(v, g) == IF v = "full" THEN renderFull(g) ELSE renderDirty(g)

----------------------------------------------------------------------------
\* Viewport sizes the model draws from: for each row count the smallest height
\* that gives it, for each column count the largest width that gives it.

HeightFor(r) == (r * CELL_DIMS * MULT_DEN + MULT_NUM - 1) \div MULT_NUM
WidthFor(c) == (c * CELL_DIMS * MULT_DEN) \div MULT_NUM

Heights == {HeightFor(r) : r \in 0..MaxRows}
Widths == {WidthFor(c) : c \in 0..MaxCols}

----------------------------------------------------------------------------

TypeOK ==
    /\ variant \in Variants
    /\ dragType \in {NoDrag, DRAG_TYPE.add, DRAG_TYPE.delete}
    /\ intervalId \in 0..MaxIntervals
    /\ intervals \subseteq 1..MaxIntervals
    /\ timer \in BOOLEAN
    /\ threw \in BOOLEAN
    /\ gen \in 0..MaxGen

\* The state once game.init() has returned.
Init ==
    /\ variant \in Variants
    /\ innerHeight \in Heights
    /\ innerWidth \in Widths
    /\ grid = initGrid(<<>>, innerHeight, innerWidth)
    /\ dragType = NoDrag
    /\ intervalId = Undefined
    /\ intervals = {}
    /\ timer = FALSE
    /\ last = "init"
    /\ target = Null
    /\ pre = <<>>
    /\ threw = FALSE
    /\ gen = 0
    /\ pre2 = Null

\* History kept by every handler: its name, the node it hit, the grid it
\* found, whether it threw; and, when the handler is the second mousedown in
\* a row on one cell, the grid the first of the two found.
Hist(op, node, t) ==
    /\ last' = op
    /\ target' = node
    /\ pre' = grid
    /\ threw' = t
    /\ gen' = 0
    /\ pre2' = IF op = "mousedown" /\ last = "mousedown" /\ node # Null /\ target = node
               THEN pre ELSE Null

\* All cell nodes (elements of class col) of the grid.
Cols(g) == UNION {{<<i, j>> : j \in 1..Len(g[i])} : i \in 1..Len(g)}

\* pause(): clearInterval(this.state.intervalId); intervalId = undefined.
pause ==
    /\ intervals' = intervals \ {intervalId}
    /\ intervalId' = Undefined

\* setInterval returns a handle that no active interval has.
setInterval(active) == Min((1..(Cardinality(active) + 1)) \ active)

\* play(): intervalId = setInterval(render, intervalMs).
play ==
    /\ Cardinality(intervals) < MaxIntervals
    /\ intervals' = intervals \cup {setInterval(intervals)}
    /\ intervalId' = setInterval(intervals)

\* game.play() called on the game object.
Play ==
    /\ play
    /\ Hist("play", Null, FALSE)
    /\ UNCHANGED <<variant, grid, dragType, innerHeight, innerWidth, timer>>

\* game.pause() called on the game object.
Pause ==
    /\ pause
    /\ Hist("pause", Null, FALSE)
    /\ UNCHANGED <<variant, grid, dragType, innerHeight, innerWidth, timer>>

\* initPlayBtn: click on #playBtn.
PlayBtnClick ==
    /\ IF intervalId = Undefined THEN play ELSE pause
    /\ Hist("playBtn", Null, FALSE)
    /\ UNCHANGED <<variant, grid, dragType, innerHeight, innerWidth, timer>>

\* The forEach of initClearBtn: every cell loses data-alive.
clearAll(g) == [i \in 1..Len(g) |-> [j \in 1..Len(g[i]) |-> [g[i][j] EXCEPT !.alive = FALSE]]]

\* initClearBtn: click on #clearBtn.
ClearBtnClick ==
    /\ pause
    /\ grid' = clearAll(grid)
    /\ Hist("clearBtn", Null, FALSE)
    /\ UNCHANGED <<variant, dragType, innerHeight, innerWidth, timer>>

\* toggle with a slip: the cell is set alive whatever it was.
toggleSets(g, node) == [g EXCEPT ![node[1]][node[2]].alive = TRUE]

\* column.onmousedown: toggle data-alive of the cell.
toggle(g, node) == [g EXCEPT ![node[1]][node[2]].alive = ~ @]

\* onDrag(true), after pause: the drag type chosen from event.target, which is
\* a cell node or (Null) an element that is no cell.
dragStart(g, node, old) ==
    IF node # Null
    THEN IF ~ g[node[1]][node[2]].alive THEN DRAG_TYPE.delete ELSE DRAG_TYPE.add
    ELSE old

\* onDrag calls this.pause() first in src/game.js only.
dragPause ==
    IF variant = "full" THEN pause ELSE UNCHANGED <<intervals, intervalId>>

\* mousedown on the grid: column.onmousedown on the target, then the grid's
\* listener onDrag(true) as the event bubbles.
MouseDown ==
    /\ \E node \in Cols(grid) \cup {Null} :
        LET toggled == IF node # Null THEN toggle(grid, node) ELSE grid
        IN  /\ grid' = toggled
            /\ dragType' = dragStart(toggled, node, dragType)
            /\ Hist("mousedown", node, FALSE)
    /\ dragPause
    /\ UNCHANGED <<variant, innerHeight, innerWidth, timer>>

\* touchstart on the grid: only the grid's listener onDrag(true).
TouchStart ==
    /\ \E node \in Cols(grid) \cup {Null} :
        /\ dragType' = dragStart(grid, node, dragType)
        /\ Hist("touchstart", node, FALSE)
    /\ dragPause
    /\ UNCHANGED <<variant, grid, innerHeight, innerWidth, timer>>

\* mouseup on the grid: onDrag(false).
MouseUp ==
    /\ dragPause
    /\ dragType' = NoDrag
    /\ Hist("mouseup", Null, FALSE)
    /\ UNCHANGED <<variant, grid, innerHeight, innerWidth, timer>>

\* touchend on the grid: onDrag(false).
TouchEnd ==
    /\ dragPause
    /\ dragType' = NoDrag
    /\ Hist("touchend", Null, FALSE)
    /\ UNCHANGED <<variant, grid, innerHeight, innerWidth, timer>>

\* mouseenter with a slip: without a drag type the cell is painted alive.
mouseenterPaints(g, node, drag) ==
    IF drag = DRAG_TYPE.delete THEN [g EXCEPT ![node[1]][node[2]].alive = FALSE]
    ELSE [g EXCEPT ![node[1]][node[2]].alive = TRUE]

\* column.onmouseenter
mouseenter(g, node, drag) ==
    IF drag = DRAG_TYPE.delete THEN [g EXCEPT ![node[1]][node[2]].alive = FALSE]
    ELSE IF drag = DRAG_TYPE.add THEN [g EXCEPT ![node[1]][node[2]].alive = TRUE]
    ELSE g

MouseEnter ==
    /\ \E node \in Cols(grid) :
        /\ grid' = mouseenter(grid, node, dragType)
        /\ Hist("mouseenter", node, FALSE)
    /\ UNCHANGED <<variant, dragType, intervalId, intervals,
                   innerHeight, innerWidth, timer>>

\* window 'resize' in src/game.js (initResize): initGrid runs at once.
ResizeFull(hs, ws) ==
    /\ variant = "full"
    /\ \E h \in hs, w \in ws :
        /\ innerHeight' = h
        /\ innerWidth' = w
        /\ grid' = initGrid(grid, h, w)
    /\ Hist("initGrid", Null, FALSE)
    /\ UNCHANGED <<variant, dragType, intervalId, intervals, timer>>

\* window 'resize' in src/unnamed/part_000: the debounced listener restarts
\* its timer.
ResizeDirty(hs, ws) ==
    /\ variant = "dirty"
    /\ \E h \in hs, w \in ws :
        /\ innerHeight' = h
        /\ innerWidth' = w
    /\ timer' = TRUE
    /\ Hist("resize", Null, FALSE)
    /\ UNCHANGED <<variant, grid, dragType, intervalId, intervals>>

\* The window is resized to one of the heights hs and widths ws.
Resize(hs, ws) == ResizeFull(hs, ws) \/ ResizeDirty(hs, ws)

\* The debounce timer expires: initGrid() with the window's size.
DebounceFire ==
    /\ timer
    /\ timer' = FALSE
    /\ grid' = initGrid(grid, innerHeight, innerWidth)
    /\ Hist("initGrid", Null, FALSE)
    /\ UNCHANGED <<variant, dragType, intervalId, intervals,
                   innerHeight, innerWidth>>

\* An active interval fires: render().
Tick ==
    /\ intervals # {}
    /\ LET r == render(variant, grid)
       IN  /\ grid' = r.grid
           /\ threw' = r.threw
    /\ last' = "render"
    /\ target' = Null
    /\ pre' = grid
    /\ gen' = IF gen < MaxGen THEN gen + 1 ELSE gen
    /\ pre2' = Null
    /\ UNCHANGED <<variant, dragType, intervalId, intervals,
                   innerHeight, innerWidth, timer>>

Next ==
    \/ PlayBtnClick
    \/ Play
    \/ Pause
    \/ ClearBtnClick
    \/ MouseDown
    \/ TouchStart
    \/ MouseUp
    \/ TouchEnd
    \/ MouseEnter
    \/ Resize(Heights, Widths)
    \/ DebounceFire
    \/ Tick

Spec == Init /\ [][Next]_vars

\* The listeners alone: no call of game.play() or game.pause() from outside.
NextEvents ==
    \/ PlayBtnClick
    \/ ClearBtnClick
    \/ MouseDown
    \/ TouchStart
    \/ MouseUp
    \/ TouchEnd
    \/ MouseEnter
    \/ Resize(Heights, Widths)
    \/ DebounceFire
    \/ Tick

SpecEvents == Init /\ [][NextEvents]_vars

----------------------------------------------------------------------------
\* One tick from any grid: the clock runs, the grid has any shape up to
\* StepRows x StepCols and any cells alive, as clicks and resizes can leave it.

\* A grid of the given shape as initGrid builds it, with the cells of a alive.
GridOf(rows, cols, a) ==
    [i \in 1..rows |-> [j \in 1..cols |->
        [NewColumn(i - 1, j - 1) EXCEPT !.alive = a[i][j]]]]

Running(g, rows, cols) ==
    /\ variant \in Variants
    /\ grid = g
    /\ innerHeight = HeightFor(rows)
    /\ innerWidth = WidthFor(cols)
    /\ dragType = NoDrag
    /\ intervalId = 1
    /\ intervals = {1}
    /\ timer = FALSE
    /\ last = "play"
    /\ target = Null
    /\ pre = g
    /\ threw = FALSE
    /\ gen = 0
    /\ pre2 = Null

InitStep ==
    \E rows \in 0..StepRows, cols \in 0..StepCols :
        \E a \in [1..rows -> [1..cols -> BOOLEAN]] :
            Running(GridOf(rows, cols, a), rows, cols)

FirstTick == gen = 0 /\ Tick

SpecStep == InitStep /\ [][FirstTick]_vars

----------------------------------------------------------------------------
\* Resizes alone, from any grid up to ResizeRows x ResizeCols.

ResizeHeights == {HeightFor(r) : r \in 0..ResizeRows}
ResizeWidths == {WidthFor(c) : c \in 0..ResizeCols}

InitResize ==
    \E rows \in 0..ResizeRows, cols \in 0..ResizeCols :
        \E a \in [1..rows -> [1..cols -> BOOLEAN]] :
            Running(GridOf(rows, cols, a), rows, cols)

SpecResize == InitResize /\ [][Resize(ResizeHeights, ResizeWidths) \/ DebounceFire]_vars

----------------------------------------------------------------------------
\* Pointer events alone, on a stopped game with a grid of several cells.

InitPointer ==
    /\ \E rows \in 1..PointerRows, cols \in 1..PointerCols :
        \E a \in [1..rows -> [1..cols -> BOOLEAN]] :
            /\ grid = GridOf(rows, cols, a)
            /\ innerHeight = HeightFor(rows)
            /\ innerWidth = WidthFor(cols)
    /\ variant \in Variants
    /\ dragType = NoDrag
    /\ intervalId = Undefined
    /\ intervals = {}
    /\ timer = FALSE
    /\ last = "init"
    /\ target = Null
    /\ pre = grid
    /\ threw = FALSE
    /\ gen = 0
    /\ pre2 = Null

NextPointer == MouseDown \/ TouchStart \/ MouseUp \/ TouchEnd \/ MouseEnter

SpecPointer == InitPointer /\ [][NextPointer]_vars

----------------------------------------------------------------------------
\* The blinker on grids of at least 5 x 5 cells.

Blinker == {<<1, 1>>, <<1, 2>>, <<1, 3>>}
BlinkerTurned == {<<0, 2>>, <<1, 2>>, <<2, 2>>}

\* The ids of the alive cells.
AliveIds(g) == {g[n[1]][n[2]].id : n \in {m \in Cols(g) : g[m[1]][m[2]].alive}}

InitBlinker ==
    \E rows \in 5..(5 + BlinkerSlack), cols \in 5..(5 + BlinkerSlack) :
        Running(GridOf(rows, cols,
                       [i \in 1..rows |-> [j \in 1..cols |-> <<i - 1, j - 1>> \in Blinker]]),
                rows, cols)

SpecBlinker == InitBlinker /\ [][Tick]_vars

----------------------------------------------------------------------------
\* The transition rule as the specification states it (B3/S23 on a closed
\* grid), by place in the grid and not by id.

Offsets == {<<-1, -1>>, <<-1, 0>>, <<-1, 1>>, <<0, 1>>, <<1, 1>>, <<1, 0>>, <<1, -1>>, <<0, -1>>}

\* Cell (r, c), 0-based, exists and is alive.
AliveAt(g, r, c) ==
    /\ r >= 0 /\ r < Len(g)
    /\ c >= 0 /\ c < Len(g[r + 1])
    /\ g[r + 1][c + 1].alive

AliveAround(g, r, c) == Cardinality({d \in Offsets : AliveAt(g, r + d[1], c + d[2])})

RuleAlive(g, r, c) ==
    IF AliveAt(g, r, c)
    THEN AliveAround(g, r, c) \in {2, 3}
    ELSE AliveAround(g, r, c) = 3

\* The grid after one generation of the rule.
RuleStep(g) ==
    [i \in 1..Len(g) |-> [j \in 1..Len(g[i]) |->
        [g[i][j] EXCEPT !.alive = RuleAlive(g, i - 1, j - 1)]]]

OtherVariant(v) == IF v = "full" THEN "dirty" ELSE "full"

IsSquare(g) == \A i \in 1..Len(g) : Len(g[i]) = Len(g)

----------------------------------------------------------------------------
\* C1: one tick of the full scan and one tick of the dirty propagation, from
\* the same grid, leave the same cells alive.
C1_VariantsAgree ==
    last = "render" => AliveIds(grid) = AliveIds(render(OtherVariant(variant), pre).grid)

\* C2: one tick of the full scan visits every coordinate of the rows x cols
\* grid exactly once and leaves each cell alive iff the B3/S23 rule, taken on
\* the grid before the tick, says so.
ScanVisits(g) == IF Len(g) = 0 THEN <<>> ELSE ScanCoords(g)

AllCoords(g) == {<<n[1] - 1, n[2] - 1>> : n \in Cols(g)}

C2_FullScanRule ==
    (variant = "full" /\ last = "render") =>
        /\ Range(ScanVisits(pre)) = AllCoords(pre)
        /\ Len(ScanVisits(pre)) = Cardinality(AllCoords(pre))
        /\ grid = RuleStep(pre)

\* C9: a tick never throws and never applies only part of its batch.
C9_TickTotal == last = "render" => ~ threw

\* Beside C1, C2 and C9: on square grids with at least one row the full scan
\* follows the rule and does not throw; the dirty propagation never throws.
FullScanSquareRule ==
    (variant = "full" /\ last = "render" /\ IsSquare(pre) /\ Len(pre) > 0) =>
        grid = RuleStep(pre) /\ ~ threw

DirtyNeverThrows == (variant = "dirty" /\ last = "render") => ~ threw

----------------------------------------------------------------------------
\* C3: when a resize reaches initGrid the clock has been stopped first: right
\* after initGrid no tick interval is active and the clock is Stopped.
C3_ResizeStopsClock ==
    last = "initGrid" => (intervals = {} /\ intervalId = Undefined)

\* C4: whenever the drag type is add or delete, no tick interval is active.
C4_NoTickWhileDragging == dragType # NoDrag => intervals = {}

\* C5: at most one periodic tick source is active, whatever was called.
C5_OneTickSource == Cardinality(intervals) <= 1

\* Beside C5: pause on a stopped clock changes nothing and does not throw.
PauseWhenStoppedIsNoOp ==
    [][(intervalId = Undefined /\ Pause) =>
        (UNCHANGED <<grid, dragType, intervalId, intervals>> /\ ~ threw')]_vars

\* C6: between a pause and the next play no render changes the cell store.
C6_NoTickAfterPause ==
    ~ (last = "render" /\ intervalId = Undefined /\ grid # pre)

\* Beside C5 and C6: under SpecEvents, where play and pause run only from the
\* listeners, the one active interval is the one state.intervalId names, so
\* C5_OneTickSource and C6_NoTickAfterPause hold there.
OnlyTheHandleTicks == intervals \subseteq {intervalId}

----------------------------------------------------------------------------
\* C7: initGrid keeps the state of every cell that lies in both the old and
\* the new shape, leaves every added cell dead and drops the rest: the cells
\* alive afterwards are those alive before that lie in the new shape.
InShape(g, r, c) == r >= 0 /\ r < Len(g) /\ c >= 0 /\ c < Len(g[r + 1])

Rectangular(g) == \A i \in 1..Len(g) : Len(g[i]) = Len(g[1])

C7_ResizePreserves ==
    last = "initGrid" =>
        /\ Rectangular(grid)
        /\ \A r \in 0..(ResizeRows + 1), c \in 0..(ResizeCols + 1) :
            AliveAt(grid, r, c) <=> (InShape(grid, r, c) /\ AliveAt(pre, r, c))

\* C7 happens: rows grew and columns shrank in one resize, an alive cell was
\* kept, an alive cell was dropped and a dead cell was added.
C7_Witness ==
    /\ last = "initGrid"
    /\ Len(pre) >= 1 /\ Len(grid) > Len(pre)
    /\ Len(grid[1]) >= 1 /\ Len(grid[1]) < Len(pre[1])
    /\ AliveAt(grid, 0, 0)
    /\ \E c \in 0..ResizeCols : AliveAt(pre, 0, c) /\ ~ InShape(grid, 0, c)

----------------------------------------------------------------------------
\* C8: the state the first cell had before the gesture decides the drag type:
\* a gesture start on a dead cell sets add, on an alive cell delete; a cell
\* entered in add mode is alive afterwards, in delete mode dead.
C8_FirstCellDecides ==
    /\ (last \in {"mousedown", "touchstart"} /\ target # Null) =>
            dragType = IF pre[target[1]][target[2]].alive
                       THEN DRAG_TYPE.delete ELSE DRAG_TYPE.add
    /\ (last = "mouseenter" /\ dragType = DRAG_TYPE.add) => grid[target[1]][target[2]].alive
    /\ (last = "mouseenter" /\ dragType = DRAG_TYPE.delete) => ~ grid[target[1]][target[2]].alive

\* Beside C8: it holds of gestures started by mousedown.
MouseDownFirstCellDecides ==
    (last = "mousedown" /\ target # Null) =>
        dragType = IF pre[target[1]][target[2]].alive THEN DRAG_TYPE.delete ELSE DRAG_TYPE.add

----------------------------------------------------------------------------
\* C10: from the blinker (1,1) (1,2) (1,3) on a grid of at least 5 x 5 cells,
\* the first tick leaves exactly (0,2) (1,2) (2,2) alive and the second tick
\* exactly (1,1) (1,2) (1,3), in both variants.
C10_Blinker ==
    /\ gen = 1 => (AliveIds(grid) = BlinkerTurned /\ ~ threw)
    /\ gen = 2 => (AliveIds(grid) = Blinker /\ ~ threw)

\* C10 happens: the second tick has turned the blinker back, on a grid that
\* is not square.
C10_Witness ==
    /\ gen = 2
    /\ last = "render"
    /\ AliveIds(pre) = BlinkerTurned
    /\ AliveIds(grid) = Blinker
    /\ ~ IsSquare(grid)

----------------------------------------------------------------------------
\* The glider on grids of at least 6 x 6 cells, at least one cell away from
\* every edge for 4 ticks.

Glider == {<<1, 2>>, <<2, 3>>, <<3, 1>>, <<3, 2>>, <<3, 3>>}
Shifted(ids, dr, dc) == {<<id[1] + dr, id[2] + dc>> : id \in ids}

GliderGrid(rows, cols, dr, dc) ==
    GridOf(rows, cols,
           [i \in 1..rows |-> [j \in 1..cols |-> <<i - 1, j - 1>> \in Shifted(Glider, dr, dc)]])

\* The glider next to the top left corner.
InitGliderNear ==
    \E rows \in 6..(6 + GliderSlack), cols \in 6..(6 + GliderSlack) :
        Running(GliderGrid(rows, cols, 0, 0), rows, cols)

SpecGliderNear == InitGliderNear /\ [][Tick]_vars

\* The glider next to the bottom right corner: moved down by rows - 6 and
\* right by cols - 6.
InitGlider ==
    \E rows \in 6..(6 + GliderSlack), cols \in 6..(6 + GliderSlack) :
        Running(GliderGrid(rows, cols, rows - 6, cols - 6), rows, cols)

SpecGlider == InitGlider /\ [][Tick]_vars

\* C11: 4 ticks after the glider, exactly the glider's cells moved by (+1,+1)
\* are alive, in both variants.
C11_Glider ==
    gen = 4 =>
        /\ AliveIds(grid) = Shifted(Glider, Len(grid) - 6 + 1, Len(grid[1]) - 6 + 1)
        /\ ~ threw

\* Beside C11: it holds where the full scan reaches, next to the top left
\* corner (under SpecGliderNear), and of the dirty propagation everywhere.
GliderNearMoves == gen = 4 => (AliveIds(grid) = Shifted(Glider, 1, 1) /\ ~ threw)

GliderDirtyMoves == variant = "dirty" => C11_Glider

----------------------------------------------------------------------------
\* C12: an alive cell without an alive neighbour is dead after one tick,
\* wherever it lies and whatever the shape of the grid; a grid whose only
\* alive cell is isolated is all dead after one tick.
C12_IsolatedDies ==
    last = "render" =>
        /\ \A n \in Cols(pre) :
            (AliveAt(pre, n[1] - 1, n[2] - 1) /\ AliveAround(pre, n[1] - 1, n[2] - 1) = 0)
                => ~ AliveAt(grid, n[1] - 1, n[2] - 1)
        /\ Cardinality(AliveIds(pre)) = 1 => AliveIds(grid) = {}

\* Beside C12: it holds of the dirty propagation, and of the full scan on
\* square grids.
IsolatedDiesWhereScanned == (variant = "dirty" \/ IsSquare(pre)) => C12_IsolatedDies

----------------------------------------------------------------------------
\* C13: after any sequence of resizes, with no reconciliation pending, the
\* grid has exactly floor(height / 32 * 1.5) rows and every row has exactly
\* ceil(width / 32 * 1.5) cells, for the height and width of the window.
\* The roundings are stated by their bounds: rows <= 3h/64 < rows + 1 and
\* cols - 1 < 3w/64 <= cols.
C13_ShapeFollowsWindow ==
    timer = FALSE =>
        /\ Len(grid) * CELL_DIMS * MULT_DEN <= innerHeight * MULT_NUM
        /\ innerHeight * MULT_NUM < (Len(grid) + 1) * CELL_DIMS * MULT_DEN
        /\ \A i \in 1..Len(grid) :
            /\ (Len(grid[i]) - 1) * CELL_DIMS * MULT_DEN < innerWidth * MULT_NUM
            /\ innerWidth * MULT_NUM <= Len(grid[i]) * CELL_DIMS * MULT_DEN

\* C13 happens: a reconciliation changed both the number of rows and the
\* number of cells of the rows, on a window that is no whole number of cells.
C13_Witness ==
    /\ timer = FALSE /\ last = "initGrid"
    /\ Len(pre) >= 1 /\ Len(grid) >= 1
    /\ Len(grid) # Len(pre) /\ Len(grid[1]) # Len(pre[1])
    /\ (innerHeight * MULT_NUM) % (CELL_DIMS * MULT_DEN) # 0
    /\ (innerWidth * MULT_NUM) % (CELL_DIMS * MULT_DEN) # 0

----------------------------------------------------------------------------
\* C14: two mousedowns in a row on one cell, with no other handler and no
\* tick between them, leave the grid as the first of the two found it: the
\* cell is back in its state and every other cell is unchanged.
C14_ToggleTwice == pre2 # Null => grid = pre2

\* C14 happens: a cell was clicked twice in a row on a grid that has other
\* cells, one of them alive; the first click had changed the cell.
C14_Witness ==
    /\ pre2 # Null /\ last = "mousedown" /\ target # Null
    /\ pre # pre2
    /\ \E n \in Cols(grid) : n # target /\ grid[n[1]][n[2]].alive

----------------------------------------------------------------------------
\* The cells one dirty step evaluates, and the cells the rule needs evaluated.
Evaluated(g) == forEachSeed(g, NoneSeen, AliveNodes(g)).seen

AliveOrBeside(g) ==
    AliveIds(g) \cup
        {<<id[1] + d[1], id[2] + d[2]>> : id \in AliveIds(g), d \in Offsets}

MustEvaluate(g) == {id \in AliveOrBeside(g) : InShape(g, id[1], id[2])}

NoDuplicates(s) == \A i, j \in 1..Len(s) : s[i] = s[j] => i = j

\* C15: one tick of the dirty step evaluates every alive cell and every
\* in-bounds neighbour of every alive cell, each exactly once, the neighbours
\* of an alive cell already seen as a neighbour of an earlier seed included.
C15_DirtyEvaluatesAll ==
    (variant = "dirty" /\ last = "render") =>
        LET st == forEachSeed(pre, NoneSeen, AliveNodes(pre))
        IN  /\ st.seen = MustEvaluate(pre)
            /\ NoDuplicates(st.nodesToKill \o st.nodesToResurrect)

\* Beside C15: no cell is evaluated twice and none outside the alive cells
\* and their neighbours; the neighbours of the first seed are all evaluated.
DirtyEvaluatesNoMore ==
    (variant = "dirty" /\ last = "render") =>
        LET st == forEachSeed(pre, NoneSeen, AliveNodes(pre))
        IN  /\ st.seen \subseteq MustEvaluate(pre)
            /\ AliveIds(pre) \subseteq st.seen
            /\ NoDuplicates(st.nodesToKill \o st.nodesToResurrect)

----------------------------------------------------------------------------
GestureStarts == {"mousedown", "touchstart"}
GestureEnds == {"mouseup", "touchend"}

\* After a gesture end the drag type is undefined.
EndClearsMode == last \in GestureEnds => dragType = NoDrag

\* With the drag type undefined a pointer entering a cell changes no cell.
IdleEnterChangesNothing == (last = "mouseenter" /\ dragType = NoDrag) => grid = pre

\* Only a gesture start or a gesture end changes the drag type.
ModeKeptStep == dragType' # dragType => last' \in GestureStarts \cup GestureEnds

\* C16: after a gesture end (mouseup or touchend) the drag mode is None;
\* while it is None a pointer entering any cell leaves every cell unchanged;
\* the mode a gesture start sets is changed by no handler but a gesture start
\* or end.
C16_DragMode == [](EndClearsMode /\ IdleEnterChangesNothing) /\ [][ModeKeptStep]_vars

\* C16 happens: the pointer entered an alive cell with no drag under way; the
\* cell is alive from a click, whose gesture has ended since.
C16_Witness ==
    /\ last = "mouseenter" /\ dragType = NoDrag
    /\ target # Null /\ grid[target[1]][target[2]].alive

----------------------------------------------------------------------------
SameShape(g, h) == Len(g) = Len(h) /\ \A i \in 1..Len(g) : Len(g[i]) = Len(h[i])

\* Right after the clear handler no interval is active, no cell is alive and
\* the grid has the shape the handler found.
ClearedAndStopped ==
    last = "clearBtn" =>
        /\ intervals = {}
        /\ AliveIds(grid) = {}
        /\ SameShape(grid, pre)

\* The clear handler leaves the drag type as it was.
ClearKeepsModeStep == last' = "clearBtn" => dragType' = dragType

\* C17: immediately after the clear handler has run, no tick interval is
\* active, every cell of the grid is dead, and the shape of the grid and the
\* drag mode are what they were.
C17_ClearAll == []ClearedAndStopped /\ [][ClearKeepsModeStep]_vars

\* Beside C17: all of it but the stopped clock holds whatever was called
\* before, and the clock is stopped too when at most one interval was active.
ClearKillsAll ==
    last = "clearBtn" =>
        /\ intervalId = Undefined
        /\ AliveIds(grid) = {}
        /\ SameShape(grid, pre)

----------------------------------------------------------------------------
\* One resize event of the window.
ResizeEvent == Resize(ResizeHeights, ResizeWidths)

\* A resize event reconciles nothing itself and leaves the quiet period
\* running; initGrid runs only as a pending quiet period expires, and none is
\* pending after it.
CoalescedStep ==
    /\ ResizeEvent => (grid' = grid /\ timer' = TRUE)
    /\ last' = "initGrid" => (timer = TRUE /\ timer' = FALSE)

\* C18: resize events are coalesced. However many events arrive, each before
\* the quiet period of the one before has expired, initGrid runs once, after
\* the last of them, and at most one reconciliation is pending at any time.
C18_ResizeCoalesced == [][CoalescedStep]_vars

\* Beside C18: it holds of the debounced listener of src/unnamed/part_000.
DebouncedCoalesces == [][variant = "dirty" => CoalescedStep]_vars

----------------------------------------------------------------------------
\* The places (1-based) of the in-bounds neighbours of cell (r, c).
PlacesAround(g, r, c) ==
    {<<r + d[1] + 1, c + d[2] + 1>> : d \in {e \in Offsets : InShape(g, r + e[1], c + e[2])}}

\* C19: after any sequence of resizes the cell at position c of row r carries
\* the id "r-c", no two cells carry one id, a lookup by id finds a cell if and
\* only if 0 <= r < rows and 0 <= c < cols (and finds the cell at that
\* position), and the neighbour lookup of the step returns exactly the
\* in-bounds neighbours.
C19_IdsFollowPlaces ==
    /\ \A n \in Cols(grid) : grid[n[1]][n[2]].id = <<n[1] - 1, n[2] - 1>>
    /\ \A m, n \in Cols(grid) : grid[m[1]][m[2]].id = grid[n[1]][n[2]].id => m = n
    /\ \A r \in (-1)..(ResizeRows + 1), c \in (-1)..(ResizeCols + 1) :
        /\ getNode(grid, r, c) # Null <=> InShape(grid, r, c)
        /\ InShape(grid, r, c) => getNode(grid, r, c) = <<r + 1, c + 1>>
    /\ \A n \in Cols(grid) :
        Range(neighbors(grid, n[1] - 1, n[2] - 1)) \ {Null}
            = PlacesAround(grid, n[1] - 1, n[2] - 1)

\* C19 happens: a reconciliation added rows to the grid and cells to the rows
\* it kept, and a cell away from the first row and column has neighbours.
C19_Witness ==
    /\ last = "initGrid"
    /\ Len(pre) >= 1 /\ Len(grid) > Len(pre)
    /\ Len(pre[1]) >= 1 /\ Len(grid[1]) > Len(pre[1])
    /\ getNode(grid, Len(grid) - 1, Len(grid[1]) - 1) = <<Len(grid), Len(grid[1])>>
    /\ Cardinality(PlacesAround(grid, Len(grid) - 1, Len(grid[1]) - 1)) = 3
====
